---- MODULE Spec2Model ----
(***************************************************************************)
(* Model of the simple-data-pipeline scripts:                              *)
(*   mta_daily_ridership.py, mta_operations_statement.py  (the paginated   *)
(*   Socrata harvesters) and duckdb_example.py, datafusion_example.py      *)
(*   (the query-engine wrappers).                                          *)
(*                                                                         *)
(* One run executes one script.  A harvester run walks main(): token       *)
(* check, the while-True pagination loop around SocrataResource.fetch_data *)
(* (requests.Session + urllib3 Retry), per-page normalization, the final   *)
(* pl.concat and write_parquet.  A wrapper run is a sequence of            *)
(* register_data / export calls with arbitrary arguments.                  *)
(*                                                                         *)
(* Data abstraction.  A column name is a string; str.lower / str.replace   *)
(* are tables over the names the model draws from.  A cell is a string     *)
(* whose prefix tells its polars dtype: a bare string is a Utf8 value,     *)
(* "date:..." a pl.Date, "f64:..." a Float64, "i64:..." an Int64, "null"   *)
(* a null.  A DataFrame is [schema : column -> dtype, rows : Seq(row)],    *)
(* a row is [rid, cells]; rid is the row's position in the source and is   *)
(* not a column (it lets the model tell rows apart).  Column order is not  *)
(* modelled (the source emits keys in one fixed order).                    *)
(***************************************************************************)
EXTENDS Integers, Sequences, FiniteSets, TLC

VARIABLES
    script,         \* which script this run executes
    token,          \* os.getenv("SOCRATA_API_TOKEN")
    limit,          \* main: limit (page size; 500_000 in the scripts)
    source,         \* the upstream dataset: Seq of raw records
    sourceKind,     \* "static": honours $offset; "endless": never empty
    pc,             \* position of the run
    offset,         \* main: offset
    frames,         \* main: frames
    data,           \* main: data (decoded page of the last fetch)
    final_df,       \* main: final_df
    retryTotal,     \* urllib3 Retry.total left for the current session.get
    attempts,       \* HTTP requests sent by the current fetch_data call
    resp,           \* status of the response session.get returned (0: none)
    lastAnswer,     \* the server's answer to the latest HTTP request
    exc,            \* exception in flight ("none" when there is none)
    sessionOpen,    \* number of requests.Session objects open
    opened,         \* sessions opened so far
    closed,         \* session.close() calls so far
    requestLog,     \* query parameters of every fetch_data call, in order
    pageLens,       \* length of every page fetch_data returned, in order
    dirs,           \* directories created by this run
    files,          \* files written by this run: Seq of [path, rows]
    registered_tables, \* wrapper: self.registered_tables
    views,          \* wrapper: tables/views known to self.con
    calls,          \* wrapper: calls made so far
    ndf,            \* normalization harness: current DataFrame
    nhist           \* normalization harness: results of the passes so far

vars == <<script, token, limit, source, sourceKind, pc, offset, frames, data,
          final_df, retryTotal, attempts, resp, lastAnswer, exc,
          sessionOpen, opened, closed, requestLog, pageLens, dirs, files,
          registered_tables, views, calls, ndf, nhist>>

harvestVars == <<token, limit, source, sourceKind, offset, frames, data,
                 final_df, retryTotal, attempts, resp, lastAnswer, exc,
                 sessionOpen, opened, closed, requestLog, pageLens>>
wrapperVars == <<registered_tables, views, calls>>
normVars == <<ndf, nhist>>

----------------------------------------------------------------------------
(* Bounds *)

MaxRows == 3        \* rows in the upstream dataset
MaxLimit == 2       \* page sizes 1..MaxLimit stand for limit = 500_000
MaxCalls == 2       \* wrapper calls per run
MaxArgs == 2        \* length of the paths / table_names lists

MaxFetches == MaxRows + 2   \* cap on fetch_data calls (endless sources)

Range(f) == {f[x] : x \in DOMAIN f}

----------------------------------------------------------------------------
(* Column names, cells and DataFrames *)

\* str.lower() on the column names the model draws from
Lower(c) ==
    CASE c = "Date" -> "date"
      [] c = "Subways Total Estimated Ridership" -> "subways total estimated ridership"
      [] c = "Month" -> "month"
      [] c = "Agency" -> "agency"
      [] c = "Fiscal Year" -> "fiscal year"
      [] c = "Amount" -> "amount"
      [] OTHER -> c

\* str.replace(" ", "_")
ReplaceSpace(c) ==
    CASE c = "subways total estimated ridership" -> "subways_total_estimated_ridership"
      [] c = "fiscal year" -> "fiscal_year"
      [] OTHER -> c

\* str.replace("-", "_")
ReplaceHyphen(c) ==
    CASE c = "fiscal-year" -> "fiscal_year"
      [] OTHER -> c

\* .str.strptime(pl.Date, "%Y-%m-%dT%H:%M:%S%.f", strict=False) on one Utf8
\* value: a value that does not match the pattern becomes null
ParseDate(v) ==
    CASE v = "2020-03-15T00:00:00.000" -> "date:2020-03-15"
      [] v = "2020-03-01T00:00:00" -> "date:2020-03-01"
      [] OTHER -> "null"

\* .cast(pl.Float64) on one value (strict: "error" when it cannot convert)
CastFloat64(v) ==
    CASE v = "null" -> "null"
      [] v = "12.5" -> "f64:12.5"
      [] v = "7" -> "f64:7.0"
      [] v = "2020" -> "f64:2020.0"
      [] v = "2021" -> "f64:2021.0"
      [] v \in {"f64:12.5", "f64:7.0", "f64:2020.0", "f64:2021.0"} -> v
      [] v = "i64:2020" -> "f64:2020.0"
      [] v = "i64:2021" -> "f64:2021.0"
      [] OTHER -> "error"

\* .cast(pl.Int64) on one value (strict)
CastInt64(v) ==
    CASE v = "null" -> "null"
      [] v = "7" -> "i64:7"
      [] v = "2020" -> "i64:2020"
      [] v = "2021" -> "i64:2021"
      [] v \in {"i64:7", "i64:2020", "i64:2021"} -> v
      [] v = "f64:7.0" -> "i64:7"
      [] v = "f64:2020.0" -> "i64:2020"
      [] v = "f64:2021.0" -> "i64:2021"
      [] v = "f64:12.5" -> "i64:12"
      [] OTHER -> "error"

CastTo(t, v) == IF t = "Float64" THEN CastFloat64(v) ELSE CastInt64(v)

Cols(df) == DOMAIN df.schema

\* pl.DataFrame([])
EmptyFrame == [schema |-> <<>>, rows |-> <<>>]

\* pl.DataFrame(data) for a list of JSON records whose values are strings:
\* the columns are the keys seen, a record lacking a key gets a null there
DataFrame(recs) ==
    LET keys == UNION {DOMAIN recs[i].cells : i \in DOMAIN recs}
    IN [schema |-> [c \in keys |-> "Utf8"],
        rows |-> [i \in DOMAIN recs |->
                    [rid |-> recs[i].rid,
                     cells |-> [c \in keys |->
                                  IF c \in DOMAIN recs[i].cells
                                  THEN recs[i].cells[c] ELSE "null"]]]]

Ok(df) == [err |-> "none", df |-> df]
Raise(e, df) == [err |-> e, df |-> df]

\* df.rename(mapping): every key must be a column, the new names must differ
Rename(df, mapping) ==
    IF ~(DOMAIN mapping \subseteq Cols(df)) THEN Raise("ColumnNotFoundError", df)
    ELSE LET to(c) == IF c \in DOMAIN mapping THEN mapping[c] ELSE c
             names == {to(c) : c \in Cols(df)}
             from(n) == CHOOSE c \in Cols(df) : to(c) = n
         IN IF Cardinality(names) # Cardinality(Cols(df))
            THEN Raise("DuplicateError", df)
            ELSE Ok([schema |-> [n \in names |-> df.schema[from(n)]],
                     rows |-> [i \in DOMAIN df.rows |->
                                 [rid |-> df.rows[i].rid,
                                  cells |-> [n \in names |->
                                               df.rows[i].cells[from(n)]]]]])

\* df.with_columns(pl.col(c).str.strptime(pl.Date, ...).alias(c)): the .str
\* namespace exists on Utf8 columns only
Strptime(df, c) ==
    IF df.schema[c] # "Utf8" THEN Raise("SchemaError", df)
    ELSE Ok([schema |-> [n \in Cols(df) |-> IF n = c THEN "Date" ELSE df.schema[n]],
             rows |-> [i \in DOMAIN df.rows |->
                         [rid |-> df.rows[i].rid,
                          cells |-> [n \in Cols(df) |->
                                       IF n = c THEN ParseDate(df.rows[i].cells[n])
                                       ELSE df.rows[i].cells[n]]]]])

\* the frame with schema sch whose row i has the cells newCells[i]
Rebuild(df, sch, newCells) ==
    [schema |-> sch,
     rows |-> [i \in DOMAIN df.rows |->
                 [rid |-> df.rows[i].rid, cells |-> newCells[i]]]]

----------------------------------------------------------------------------
(* mta_daily_ridership.py: process_mta_daily_df *)

old_new ==
    << <<"subways_total_estimated_ridership", "subways_total_ridership">>,
       <<"subways_of_comparable_pre_pandemic_day", "subways_pct_pre_pandemic">>,
       <<"buses_total_estimated_ridersip", "buses_total_ridership">>,
       <<"buses_of_comparable_pre_pandemic_day", "buses_pct_pre_pandemic">>,
       <<"lirr_total_estimated_ridership", "lirr_total_ridership">>,
       <<"lirr_of_comparable_pre_pandemic_day", "lirr_pct_pre_pandemic">>,
       <<"metro_north_total_estimated_ridership", "metro_north_total_ridership">>,
       <<"metro_north_of_comparable_pre_pandemic_day", "metro_north_pct_pre_pandemic">>,
       <<"access_a_ride_total_scheduled_trips", "access_a_ride_total_trips">>,
       <<"access_a_ride_of_comparable_pre_pandemic_day", "access_a_ride_pct_pre_pandemic">>,
       <<"bridges_and_tunnels_total_traffic", "bridges_tunnels_total_traffic">>,
       <<"bridges_and_tunnels_of_comparable_pre_pandemic_day", "bridges_tunnels_pct_pre_pandemic">>,
       <<"staten_island_railway_total_estimated_ridership", "staten_island_railway_total_ridership">>,
       <<"staten_island_railway_of_comparable_pre_pandemic_day", "staten_island_railway_pct_pre_pandemic">> >>

\* line 60: rename every column to c.lower().replace(" ", "_")
DailyNames(df) ==
    Rename(df, [c \in Cols(df) |-> ReplaceSpace(Lower(c))])

\* lines 64-70: parse "date" when it is a column
DailyDate(df) ==
    IF "date" \in Cols(df) THEN Strptime(df, "date") ELSE Ok(df)

\* lines 88-94: cast every present old column to Float64 under its new name,
\* then drop the old columns
DailyCasts(df) ==
    LET R == {r \in Range(old_new) : r[1] \in Cols(df)}
        rule(n) == CHOOSE r \in R : r[2] = n
        made == {r[2] : r \in R}
        names == (Cols(df) \cup made) \ {r[1] : r \in R}
        Val(cells, n) == IF n \in made THEN CastFloat64(cells[rule(n)[1]])
                         ELSE cells[n]
        out == Rebuild(df, [n \in names |-> IF n \in made THEN "Float64"
                                            ELSE df.schema[n]],
                       [i \in DOMAIN df.rows |->
                          [n \in names |-> Val(df.rows[i].cells, n)]])
    IN IF R = {} THEN Ok(df)
       ELSE IF \E i \in DOMAIN out.rows : "error" \in Range(out.rows[i].cells)
            THEN Raise("InvalidOperationError", df)
            ELSE Ok(out)

process_mta_daily_df(df) ==
    LET a == DailyNames(df)
        b == IF a.err = "none" THEN DailyDate(a.df) ELSE a
    IN IF b.err = "none" THEN DailyCasts(b.df) ELSE b

----------------------------------------------------------------------------
(* mta_operations_statement.py: process_mta_operations_statement_df *)

casts == << <<"fiscal_year", "Int64">>, <<"amount", "Float64">> >>

\* line 51
OpsNames(df) ==
    Rename(df, [c \in Cols(df) |-> ReplaceHyphen(ReplaceSpace(Lower(c)))])

\* line 52: df.rename({"month": "timestamp"}), whatever the columns are
OpsMonth(df) == Rename(df, [c \in {"month"} |-> "timestamp"])

\* lines 54-59
OpsTimestamp(df) ==
    IF "timestamp" \in Cols(df) THEN Strptime(df, "timestamp") ELSE Ok(df)

\* the CASE expression of agency_sql on one value
AgencyFullName(v) ==
    IF v = "LIRR" THEN "Long Island Rail Road" ELSE "Unknown Agency"

\* lines 60-68: df.sql("SELECT *, CASE ... END AS agency_full_name FROM self")
\* reads column agency and adds column agency_full_name to the columns of *
OpsAgency(df) ==
    IF "agency" \notin Cols(df) THEN Raise("ColumnNotFoundError", df)
    ELSE IF "agency_full_name" \in Cols(df) THEN Raise("DuplicateError", df)
    ELSE LET names == Cols(df) \cup {"agency_full_name"}
             Val(cells, n) == IF n = "agency_full_name"
                              THEN AgencyFullName(cells["agency"]) ELSE cells[n]
         IN Ok(Rebuild(df, [n \in names |-> IF n = "agency_full_name" THEN "Utf8"
                                            ELSE df.schema[n]],
                       [i \in DOMAIN df.rows |->
                          [n \in names |-> Val(df.rows[i].cells, n)]]))

\* lines 69-76: cast in place the columns of casts that are present
OpsCasts(df) ==
    LET R == {r \in Range(casts) : r[1] \in Cols(df)}
        typ(n) == (CHOOSE r \in R : r[1] = n)[2]
        hit == {r[1] : r \in R}
        Val(cells, n) == IF n \in hit THEN CastTo(typ(n), cells[n]) ELSE cells[n]
        out == Rebuild(df, [n \in Cols(df) |-> IF n \in hit THEN typ(n)
                                               ELSE df.schema[n]],
                       [i \in DOMAIN df.rows |->
                          [n \in Cols(df) |-> Val(df.rows[i].cells, n)]])
    IN IF R = {} THEN Ok(df)
       ELSE IF \E i \in DOMAIN out.rows : "error" \in Range(out.rows[i].cells)
            THEN Raise("InvalidOperationError", df)
            ELSE Ok(out)

process_mta_operations_statement_df(df) ==
    LET a == OpsNames(df)
        b == IF a.err = "none" THEN OpsMonth(a.df) ELSE a
        c == IF b.err = "none" THEN OpsTimestamp(b.df) ELSE b
        d == IF c.err = "none" THEN OpsAgency(c.df) ELSE c
    IN IF d.err = "none" THEN OpsCasts(d.df) ELSE d

IsHarvester(s) == s \in {"mta_daily_ridership", "mta_operations_statement"}

\* the normalizer each script calls on a page (lines 121 and 97)
Normalize(s, df) ==
    IF s = "mta_daily_ridership" THEN process_mta_daily_df(df)
    ELSE process_mta_operations_statement_df(df)

----------------------------------------------------------------------------
(* The upstream source *)

\* records the daily-ridership endpoint may serve (Socrata omits null fields)
DailyRecords ==
    { ("Date" :> "2020-03-15T00:00:00.000"
         @@ "Subways Total Estimated Ridership" :> "12.5"),
      ("Date" :> "not-a-date"),
      ("Subways Total Estimated Ridership" :> "7") }

\* records the operations-statement endpoint may serve
OpsRecords ==
    { ("Month" :> "2020-03-01T00:00:00" @@ "Agency" :> "LIRR"
         @@ "Fiscal Year" :> "2020" @@ "Amount" :> "12.5"),
      ("Month" :> "2020-03-01T00:00:00" @@ "Agency" :> "XYZ" @@ "Amount" :> "7"),
      ("Agency" :> "LIRR" @@ "Amount" :> "7"),
      ("Month" :> "2020-03-01T00:00:00" @@ "fiscal-year" :> "2021") }

Records(s) == IF s = "mta_daily_ridership" THEN DailyRecords ELSE OpsRecords

\* datasets of n rows; rid is the row's position under the $order clause
Sources(s, n) ==
    {[i \in 1..n |-> [rid |-> i, cells |-> f[i]]] : f \in [1..n -> Records(s)]}

Min(a, b) == IF a < b THEN a ELSE b

\* body of a 200 answer to {$limit: lim, $offset: off}
ServerPage(src, kind, lim, off) ==
    IF kind = "static" THEN SubSeq(src, off + 1, Min(off + lim, Len(src)))
    ELSE SubSeq(src, 1, Min(lim, Len(src)))

\* what the server may do with one HTTP request: a status (with or without a
\* Retry-After header), or status 0 for a connection-level failure
Answers ==
    {[status |-> st, retry_after |-> FALSE] : st \in {0, 200, 404, 413, 429, 503}}
      \cup {[status |-> 413, retry_after |-> TRUE]}

\* no request sent yet
NoAnswer == [status |-> 0, retry_after |-> FALSE]

----------------------------------------------------------------------------
(* SocrataResource.fetch_data: requests.Session with urllib3 Retry *)

total == 5
status_forcelist == {429, 500, 502, 503, 504}
RETRY_AFTER_STATUS_CODES == {413, 429, 503}

\* a retry policy that retries every error status
IsRetryAnyError(tot, st, has_retry_after) == st >= 400

\* Retry.is_retry for a GET (an allowed method); respect_retry_after_header
\* keeps its default True
IsRetry(tot, st, has_retry_after) ==
    \/ st \in status_forcelist
    \/ tot # 0 /\ has_retry_after /\ st \in RETRY_AFTER_STATUS_CODES

\* Retry.increment: one retry is used up
Increment(tot) == tot - 1

\* total counted as attempts: exhausted once no retry is left
IsExhaustedAtZero(tot) == tot <= 0

\* Retry.is_exhausted
IsExhausted(tot) == tot < 0

\* the status is never checked
RaiseForStatusMissing(st) == "none"

\* resp.raise_for_status()
RaiseForStatus(st) == IF st >= 400 /\ st < 600 THEN "HTTPError" ELSE "none"

\* main, lines 99-108: the token check and the loop's initial state
MainStart ==
    /\ pc = "start" /\ IsHarvester(script)
    /\ IF token = ""
       THEN /\ pc' = "exit"
            /\ exc' = "SystemExit"
            /\ UNCHANGED <<offset, frames>>
       ELSE /\ pc' = "loop"
            /\ offset' = 0
            /\ frames' = <<>>
            /\ UNCHANGED exc
    /\ UNCHANGED <<script, token, limit, source, sourceKind, data, final_df,
                   retryTotal, attempts, resp, lastAnswer, sessionOpen, opened, closed,
                   requestLog, pageLens, dirs, files, wrapperVars, normVars>>

\* main, lines 110-115 (92 in the operations statement): the query
\* parameters of one request; only the daily script sends a $where filter
Params(s, lim, off) ==
    [limit |-> lim,
     offset |-> off,
     order |-> IF s = "mta_daily_ridership" THEN "Date ASC" ELSE "Month ASC",
     where |-> IF s = "mta_daily_ridership"
               THEN "Date >= '2020-03-01T00:00:00'" ELSE "none"]

\* fetch_data up to session.get: a fresh Retry and an open Session
FetchBegin ==
    /\ pc = "loop"
    /\ Len(requestLog) < MaxFetches
    /\ pc' = "get"
    /\ requestLog' = Append(requestLog, Params(script, limit, offset))
    /\ retryTotal' = total
    /\ attempts' = 0
    /\ resp' = 0
    /\ lastAnswer' = NoAnswer
    /\ sessionOpen' = sessionOpen + 1
    /\ opened' = opened + 1
    /\ UNCHANGED <<script, token, limit, source, sourceKind, offset, frames,
                   data, final_df, exc, closed, pageLens, dirs, files,
                   wrapperVars, normVars>>

\* what one answer does to session.get: pc, retryTotal, resp, exc afterwards
AfterAnswer(tot, ans) ==
    IF ans.status = 0 \/ IsRetry(tot, ans.status, ans.retry_after)
    THEN IF IsExhausted(Increment(tot))
         THEN [pc |-> "finally", tot |-> Increment(tot), resp |-> 0,
               exc |-> IF ans.status = 0 THEN "ConnectionError" ELSE "RetryError"]
         ELSE [pc |-> "get", tot |-> Increment(tot), resp |-> 0, exc |-> "none"]
    ELSE [pc |-> "finally", tot |-> tot, resp |-> ans.status,
          exc |-> RaiseForStatus(ans.status)]

\* one HTTP request inside session.get, and resp.raise_for_status() once
\* session.get has returned
Attempt ==
    /\ pc = "get"
    /\ \E ans \in Answers :
         LET a == AfterAnswer(retryTotal, ans)
         IN /\ lastAnswer' = ans
            /\ pc' = a.pc
            /\ retryTotal' = a.tot
            /\ resp' = a.resp
            /\ exc' = a.exc
    /\ attempts' = attempts + 1
    /\ UNCHANGED <<script, token, limit, source, sourceKind, offset, frames,
                   data, final_df, sessionOpen, opened, closed, requestLog,
                   pageLens, dirs, files, wrapperVars, normVars>>

\* session.close() after the try block instead of in a finally clause
ClosesOnSuccessOnly(e) == e = "none"

\* session.close() is called when exception e leaves it (the finally clause)
ClosesOn(e) == TRUE

\* the finally clause, then either the exception leaves fetch_data and main,
\* or fetch_data returns resp.json()
Finally ==
    /\ pc = "finally"
    /\ IF ClosesOn(exc)
       THEN sessionOpen' = sessionOpen - 1 /\ closed' = closed + 1
       ELSE UNCHANGED <<sessionOpen, closed>>
    /\ IF exc # "none"
       THEN /\ pc' = "failed"
            /\ UNCHANGED <<data, pageLens>>
       ELSE /\ pc' = "got"
            /\ data' = ServerPage(source, sourceKind, limit, offset)
            /\ pageLens' = Append(pageLens, Len(data'))
    /\ UNCHANGED <<script, token, limit, source, sourceKind, offset, frames,
                   final_df, retryTotal, attempts, resp, lastAnswer, exc,
                   opened, requestLog, dirs, files, wrapperVars, normVars>>

\* the test inverted: "if data: break"
NotDataInverted(d) == d # <<>>

\* "not data" for a decoded JSON list
NotData(d) == d = <<>>

\* main, lines 117-118: "if not data: break"
Break ==
    /\ pc = "got"
    /\ NotData(data)
    /\ pc' = "concat"
    /\ UNCHANGED <<script, harvestVars, dirs, files, wrapperVars, normVars>>

\* frames.insert(0, proc)
AbsorbInFront(fs, proc) == <<proc>> \o fs

\* frames.append(proc)
Absorb(fs, proc) == Append(fs, proc)

\* offset += 1: the cursor counted in pages instead of rows
NextOffsetByOne(off, lim) == off + 1

\* offset += limit
NextOffset(off, lim) == off + lim

\* main, lines 120-126: build the page's DataFrame, normalize it, absorb it,
\* advance the offset; an exception of the normalizer leaves main
Process ==
    /\ pc = "got"
    /\ ~NotData(data)
    /\ LET r == Normalize(script, DataFrame(data))
       IN IF r.err # "none"
          THEN /\ pc' = "failed"
               /\ exc' = r.err
               /\ UNCHANGED <<frames, offset, data>>
          ELSE /\ pc' = "loop"
               /\ frames' = Absorb(frames, r.df)
               /\ offset' = NextOffset(offset, limit)
               /\ data' = <<>>
               /\ UNCHANGED exc
    /\ UNCHANGED <<script, token, limit, source, sourceKind, final_df,
                   retryTotal, attempts, resp, lastAnswer, sessionOpen, opened, closed,
                   requestLog, pageLens, dirs, files, wrapperVars, normVars>>

RECURSIVE ConcatRows(_)
ConcatRows(fs) ==
    IF fs = <<>> THEN <<>> ELSE Head(fs).rows \o ConcatRows(Tail(fs))

\* pl.concat(frames, how="vertical"): every frame must have the schema of
\* the first one
ConcatVertical(fs) ==
    IF \E i \in DOMAIN fs : fs[i].schema # fs[1].schema
    THEN Raise("ShapeError", EmptyFrame)
    ELSE Ok([schema |-> fs[1].schema, rows |-> ConcatRows(fs)])

\* main, line 128
Concat ==
    /\ pc = "concat"
    /\ LET r == IF frames # <<>> THEN ConcatVertical(frames) ELSE Ok(EmptyFrame)
       IN IF r.err # "none"
          THEN /\ pc' = "failed"
               /\ exc' = r.err
               /\ UNCHANGED final_df
          ELSE /\ pc' = "write"
               /\ final_df' = r.df
               /\ UNCHANGED exc
    /\ UNCHANGED <<script, token, limit, source, sourceKind, offset, frames,
                   data, retryTotal, attempts, resp, lastAnswer, sessionOpen, opened,
                   closed, requestLog, pageLens, dirs, files, wrapperVars,
                   normVars>>

out_dir(s) ==
    IF s = "mta_daily_ridership" THEN "data/clean/mta_daily_ridership"
    ELSE "data/outputs"

\* a path is [dir, stem, ext]: dir/stem.ext
out_path(s) ==
    [dir |-> out_dir(s),
     stem |-> IF s = "mta_daily_ridership" THEN "mta_daily_ridership"
              ELSE "mta_operations_statement",
     ext |-> "parquet"]

\* main, lines 129-133: os.makedirs(out_dir, exist_ok=True); write_parquet
Write ==
    /\ pc = "write"
    /\ dirs' = dirs \cup {out_dir(script)}
    /\ files' = Append(files, [path |-> out_path(script), df |-> final_df])
    /\ pc' = "done"
    /\ UNCHANGED <<script, harvestVars, wrapperVars, normVars>>

----------------------------------------------------------------------------
(* duckdb_example.py: DuckDBWrapper; datafusion_example.py: DataFusionWrapper *)

IsWrapper(s) == s \in {"duckdb_example", "datafusion_example"}

\* Path(p).suffix.lower() for the input files the model draws from
SuffixLower(p) ==
    CASE p = "a.parquet" -> ".parquet"
      [] p = "b.CSV" -> ".csv"
      [] p = "c.txt" -> ".txt"
      [] OTHER -> ""

InputPaths == {"a.parquet", "b.CSV", "c.txt"}
TableNames == {"t1", "t2"}

\* file_type.lower()
LowerType(t) == IF t = "CSV" THEN "csv" ELSE t

FileTypes == {"csv", "CSV", "json", "parquet", "xml"}

SeqsUpTo(S, n) == UNION {[1..k -> S] : k \in 0..n}

\* the loop of register_data over zip(paths, table_names), from position i:
\* the first unsupported suffix or taken name raises, after the earlier
\* entries were registered
RECURSIVE RegisterLoop(_, _, _, _, _)
RegisterLoop(paths, names, i, vs, reg) ==
    IF i > Len(paths) THEN [err |-> "none", views |-> vs, registered |-> reg]
    ELSE IF SuffixLower(paths[i]) \notin {".parquet", ".csv", ".json"}
         THEN [err |-> "ValueError: unsupported file type",
               views |-> vs, registered |-> reg]
    ELSE IF names[i] \in vs
         THEN [err |-> "already exists", views |-> vs, registered |-> reg]
    ELSE RegisterLoop(paths, names, i + 1, vs \cup {names[i]},
                      Append(reg, names[i]))

\* register_data(paths, table_names) of both wrappers
RegisterData(paths, names, vs, reg) ==
    IF Len(paths) # Len(names)
    THEN [err |-> "ValueError: number of paths", views |-> vs, registered |-> reg]
    ELSE RegisterLoop(paths, names, 1, vs, reg)

register_data ==
    /\ pc = "ready" /\ IsWrapper(script)
    /\ calls < MaxCalls
    /\ \E paths \in SeqsUpTo(InputPaths, MaxArgs),
          names \in SeqsUpTo(TableNames, MaxArgs) :
         LET r == RegisterData(paths, names, views, registered_tables)
         IN /\ exc' = r.err
            /\ views' = r.views
            /\ registered_tables' = r.registered
    /\ calls' = calls + 1
    /\ UNCHANGED <<script, pc, token, limit, source, sourceKind, offset,
                   frames, data, final_df, retryTotal, attempts, resp, lastAnswer,
                   sessionOpen, opened, closed, requestLog, pageLens, dirs,
                   files, normVars>>

\* path=None, and the path the callers pass (data_dir / "weekly_riders.csv")
NoPath == [dir |-> "", stem |-> "", ext |-> ""]
GivenPath == [dir |-> "data", stem |-> "weekly_riders", ext |-> "csv"]

\* DuckDBWrapper._construct_path
ConstructPath(path, base_path, file_name, extension) ==
    IF path # NoPath THEN path
    ELSE IF base_path # "none" /\ file_name # "none"
         THEN [dir |-> base_path, stem |-> file_name, ext |-> extension]
         ELSE [dir |-> ".", stem |-> "output", ext |-> extension]

\* out_path.parent.mkdir(parents=True, exist_ok=True); "." always exists
Mkdir(ds, d) == IF d = "." THEN ds ELSE ds \cup {d}

\* export_query with the file_type test after the mkdir
ExportQueryMkdirFirst(file_type, path, base_path, file_name, ds, fs) ==
    LET p == ConstructPath(path, base_path, file_name, LowerType(file_type))
    IN IF LowerType(file_type) \notin {"csv", "json", "parquet"}
       THEN [err |-> "ValueError: file_type", dirs |-> Mkdir(ds, p.dir),
             files |-> fs]
       ELSE [err |-> "none", dirs |-> Mkdir(ds, p.dir),
             files |-> Append(fs, [path |-> p, df |-> EmptyFrame])]

\* DuckDBWrapper.export_query: directories and files afterwards
ExportQuery(file_type, path, base_path, file_name, ds, fs) ==
    IF LowerType(file_type) \notin {"csv", "json", "parquet"}
    THEN [err |-> "ValueError: file_type", dirs |-> ds, files |-> fs]
    ELSE LET p == ConstructPath(path, base_path, file_name, LowerType(file_type))
         IN [err |-> "none", dirs |-> Mkdir(ds, p.dir),
             files |-> Append(fs, [path |-> p, df |-> EmptyFrame])]

export_query ==
    /\ pc = "ready" /\ script = "duckdb_example"
    /\ calls < MaxCalls
    /\ \E file_type \in FileTypes, path \in {NoPath, GivenPath},
          base_path \in {"none", "base"}, file_name \in {"none", "f"} :
         LET r == ExportQuery(file_type, path, base_path, file_name, dirs, files)
         IN /\ exc' = r.err
            /\ dirs' = r.dirs
            /\ files' = r.files
    /\ calls' = calls + 1
    /\ UNCHANGED <<script, pc, token, limit, source, sourceKind, offset,
                   frames, data, final_df, retryTotal, attempts, resp, lastAnswer,
                   sessionOpen, opened, closed, requestLog, pageLens,
                   registered_tables, views, normVars>>

\* DataFusionWrapper.export: Path(None) raises TypeError; no directory is made
Export(file_type, path, ds, fs) ==
    IF LowerType(file_type) \notin {"parquet", "csv", "json"}
    THEN [err |-> "ValueError: file_type", dirs |-> ds, files |-> fs]
    ELSE IF path = NoPath THEN [err |-> "TypeError", dirs |-> ds, files |-> fs]
    ELSE [err |-> "none", dirs |-> ds,
          files |-> Append(fs, [path |-> path, df |-> EmptyFrame])]

export ==
    /\ pc = "ready" /\ script = "datafusion_example"
    /\ calls < MaxCalls
    /\ \E file_type \in FileTypes, path \in {NoPath, GivenPath} :
         LET r == Export(file_type, path, dirs, files)
         IN /\ exc' = r.err
            /\ dirs' = r.dirs
            /\ files' = r.files
    /\ calls' = calls + 1
    /\ UNCHANGED <<script, pc, token, limit, source, sourceKind, offset,
                   frames, data, final_df, retryTotal, attempts, resp, lastAnswer,
                   sessionOpen, opened, closed, requestLog, pageLens,
                   registered_tables, views, normVars>>

----------------------------------------------------------------------------
(* The runs *)

Scripts == {"mta_daily_ridership", "mta_operations_statement",
            "duckdb_example", "datafusion_example"}

\* state shared by every run before main() or the first call
Fresh ==
    /\ offset = 0 /\ frames = <<>> /\ data = <<>> /\ final_df = EmptyFrame
    /\ retryTotal = total /\ attempts = 0 /\ resp = 0 /\ exc = "none"
    /\ lastAnswer = NoAnswer
    /\ sessionOpen = 0 /\ opened = 0 /\ closed = 0
    /\ requestLog = <<>> /\ pageLens = <<>>
    /\ dirs = {} /\ files = <<>>
    /\ registered_tables = <<>> /\ views = {} /\ calls = 0

Init ==
    /\ script \in Scripts
    /\ pc = IF IsHarvester(script) THEN "start" ELSE "ready"
    /\ token \in IF IsHarvester(script) THEN {"", "app-token"} ELSE {""}
    /\ limit \in IF token # "" THEN 1..MaxLimit ELSE {1}
    /\ sourceKind \in IF token # "" THEN {"static", "endless"} ELSE {"static"}
    /\ \E n \in 0..MaxRows :
         /\ token = "" => n = 0
         /\ sourceKind = "endless" => n > 0
         /\ source \in Sources(script, n)
    /\ Fresh
    /\ ndf = EmptyFrame /\ nhist = <<>>

Next ==
    \/ MainStart
    \/ FetchBegin
    \/ Attempt
    \/ Finally
    \/ Break
    \/ Process
    \/ Concat
    \/ Write
    \/ register_data
    \/ export_query
    \/ export

Spec == Init /\ [][Next]_vars

----------------------------------------------------------------------------
(* The normalizers as functions: a page is drawn, then normalized twice *)

NormInit ==
    /\ script \in {"mta_daily_ridership", "mta_operations_statement"}
    /\ pc = "normalize"
    /\ token = "" /\ limit = 1 /\ sourceKind = "static" /\ source = <<>>
    /\ Fresh
    /\ \E n \in 1..MaxRows : \E page \in Sources(script, n) :
         ndf = DataFrame(page)
    /\ nhist = <<>>

\* one more pass of the script's normalizer over the previous pass's output
NormalizePass ==
    /\ pc = "normalize"
    /\ Len(nhist) < 2
    /\ nhist # <<>> => nhist[Len(nhist)].err = "none"
    /\ LET r == Normalize(script, ndf)
       IN /\ nhist' = Append(nhist, r)
          /\ ndf' = IF r.err = "none" THEN r.df ELSE ndf
    /\ UNCHANGED <<script, pc, harvestVars, dirs, files, wrapperVars>>

NormNext == NormalizePass

NormSpec == NormInit /\ [][NormNext]_vars

----------------------------------------------------------------------------
(* Properties *)

Last(q) == q[Len(q)]

RECURSIVE Sum(_)
Sum(q) == IF q = <<>> THEN 0 ELSE Head(q) + Sum(Tail(q))

Rids(df) == [i \in DOMAIN df.rows |-> df.rows[i].rid]

\* the pagination loop was left through its break
LeftLoop ==
    \/ pc \in {"concat", "write", "done"}
    \/ pc = "failed" /\ exc = "ShapeError"

\* the answers after which urllib3 sends the request again (retries left)
Transient(a) ==
    \/ a.status = 0
    \/ a.status \in status_forcelist
    \/ a.retry_after /\ a.status \in RETRY_AFTER_STATUS_CODES

\* C1 as stated: fetch_data sends at most 5 requests per call; a call whose
\* last answer is a status of the retry list has sent exactly 5 requests and
\* raises; a 200 answer ends the call with success.
C1_FiveAttempts ==
    IsHarvester(script) =>
      /\ attempts <= 5
      /\ (pc \in {"finally", "failed"} /\ lastAnswer.status \in status_forcelist)
           => attempts = 5 /\ exc = "RetryError"
      /\ (pc = "finally" /\ lastAnswer.status = 200) => exc = "none" /\ resp = 200

\* C1 (amended): fetch_data sends at most 6 requests per call (the first one
\* and total = 5 retries).  An answer from the retry list (503, ...) to one
\* of the first 5 requests is followed by another request; to the 6th it
\* ends the call with RetryError (ConnectionError for connection failures).
\* A 200 answer, for instance after one 503, ends the call with success.
C1_RetryCeiling ==
    IsHarvester(script) =>
      /\ attempts <= total + 1
      /\ pc = "get" => attempts <= total /\ retryTotal = total - attempts
      /\ (pc \in {"finally", "failed"} /\ lastAnswer.status \in status_forcelist)
           => attempts = total + 1 /\ exc = "RetryError"
      /\ (pc \in {"finally", "failed"} /\ attempts > 0 /\ lastAnswer.status = 0)
           => attempts = total + 1 /\ exc = "ConnectionError"
      /\ (pc = "finally" /\ lastAnswer.status = 200) => exc = "none" /\ resp = 200

\* six 503 answers in a row have just exhausted the retries
C1_Witness ==
    /\ pc = "finally" /\ exc = "RetryError"
    /\ attempts = total + 1 /\ lastAnswer.status = 503

\* C2: the loop is left through its break exactly when a fetch returned an
\* empty page: an empty page is the last page fetched and no request follows
\* it; the loop is never left after a non-empty page; every non-empty page
\* before it was absorbed; an empty first page means one fetch_data call and
\* nothing absorbed.
C2_StopsAtFirstEmptyPage ==
    IsHarvester(script) =>
      /\ \A i \in DOMAIN pageLens :
           pageLens[i] = 0 =>
             /\ i = Len(pageLens)
             /\ Len(requestLog) = i
             /\ pc = "got" \/ LeftLoop
      /\ LeftLoop =>
           /\ pageLens # <<>> /\ Last(pageLens) = 0
           /\ Len(frames) = Len(pageLens) - 1
      /\ (pageLens # <<>> /\ pageLens[1] = 0) =>
           Len(requestLog) = 1 /\ frames = <<>>

\* a pull over a full page and a short page, ended by the empty third page
C2_Witness ==
    /\ pc = "done" /\ limit = 2
    /\ pageLens = <<2, 1, 0>> /\ Len(requestLog) = 3

\* C3: over an unchanging source of N rows served by offset, the table a
\* completed pull holds and writes has exactly the N source rows in source
\* order, and its row count is the sum of the lengths of the fetched pages.
C3_RowCountConservation ==
    (IsHarvester(script) /\ sourceKind = "static" /\ pc \in {"write", "done"}) =>
      /\ Rids(final_df) = [i \in 1..Len(source) |-> i]
      /\ Len(final_df.rows) = Sum(pageLens)
      /\ pc = "done" => Len(files) = 1 /\ files[1].df = final_df

\* three source rows pulled in pages of two and written
C3_Witness ==
    /\ pc = "done" /\ sourceKind = "static"
    /\ Len(source) = 3 /\ limit = 2 /\ Len(frames) = 2

\* C4 as stated: the concatenation of the absorbed pages never fails on
\* differing column sets, and the final table has the union of the columns
\* of all absorbed pages.
C4_UnionOfColumns ==
    IsHarvester(script) =>
      /\ ~(pc = "failed" /\ exc = "ShapeError")
      /\ pc \in {"write", "done"} =>
           Cols(final_df) = UNION {Cols(frames[i]) : i \in DOMAIN frames}

\* C5: an artifact exists only in a completed run, whose every fetch_data
\* call returned a page of a 200 answer and whose last page was empty; a run
\* ended by an exception has written no file and made no directory; a
\* completed run has written exactly one file.
C5_ArtifactOnlyAfterCompletePull ==
    IsHarvester(script) =>
      /\ pc = "got" => resp = 200 /\ exc = "none"
      /\ files # <<>> =>
           /\ pc = "done" /\ exc = "none"
           /\ Len(pageLens) = Len(requestLog)
           /\ Last(pageLens) = 0
      /\ pc \in {"failed", "exit"} => files = <<>> /\ dirs = {}
      /\ pc = "done" => Len(files) = 1 /\ files[1].path = out_path(script)

\* a fetch failed after a page had been absorbed: nothing was written
C5_Witness ==
    /\ pc = "failed" /\ exc \in {"RetryError", "HTTPError", "ConnectionError"}
    /\ frames # <<>> /\ files = <<>>

\* C6 as stated: only an answer of the retry list (or a connection failure)
\* is followed by another request; any other error status ends the call
\* with HTTPError.
C6_OnlyListedStatusesRetried ==
    IsHarvester(script) =>
      /\ (pc = "get" /\ attempts > 0) =>
           lastAnswer.status = 0 \/ lastAnswer.status \in status_forcelist
      /\ (pc \in {"finally", "failed"} /\ lastAnswer.status >= 400
            /\ lastAnswer.status \notin status_forcelist) => exc = "HTTPError"

\* C6 (amended): an error status outside the retry list ends the call at
\* once with HTTPError, unless it is a 413 carrying a Retry-After header
\* while retries are left, which urllib3 retries by default.
C6_NonTransientFailsAtOnce ==
    IsHarvester(script) =>
      /\ (pc = "get" /\ attempts > 0) => Transient(lastAnswer)
      /\ (pc \in {"finally", "failed"} /\ lastAnswer.status >= 400
            /\ lastAnswer.status \notin status_forcelist) => exc = "HTTPError"
      /\ (pc \in {"finally", "failed"} /\ lastAnswer.status >= 400
            /\ ~Transient(lastAnswer) /\ attempts = 1) => exc = "HTTPError"

\* a 404 answer to the first request ended the call
C6_Witness ==
    /\ pc = "finally" /\ lastAnswer.status = 404
    /\ attempts = 1 /\ exc = "HTTPError"

\* C7: a call that raises for mismatched list lengths or for an unsupported
\* file_type leaves the registered tables, the engine's tables, the
\* directories and the files as they were; a run ended for a missing token
\* has sent no request, opened no session, made no directory, written no file.
C7_ConfigErrorsBeforeIO ==
    /\ [][ /\ exc' = "ValueError: number of paths"
              => UNCHANGED <<registered_tables, views, dirs, files>>
           /\ exc' = "ValueError: file_type"
              => UNCHANGED <<registered_tables, views, dirs, files>> ]_vars
    /\ [](pc = "exit" =>
            /\ exc = "SystemExit" /\ token = ""
            /\ requestLog = <<>> /\ opened = 0
            /\ dirs = {} /\ files = <<>>)

\* register_data raised for mismatched lengths on a wrapper that already
\* has a registered table
C7_Witness ==
    /\ IsWrapper(script)
    /\ exc = "ValueError: number of paths"
    /\ registered_tables # <<>>

\* C8 as stated: the first pass of a script's normalizer over a page of the
\* source never raises, whichever fields the page lacks.
C8_AbsentFieldIsNoError ==
    nhist # <<>> => nhist[1].err = "none"

\* C9 as stated: normalizing the output of the normalizer succeeds and
\* returns that output unchanged.
C9_NormalizeIdempotent ==
    Len(nhist) = 2 => nhist[2].err = "none" /\ nhist[2].df = nhist[1].df

\* C10: a session is open only between the start of fetch_data and its
\* finally clause, and at most one; whenever main runs (the offset is
\* advanced, the loop is left, the run has ended) every session opened so
\* far was closed exactly once, one per fetch_data call.
C10_SessionClosedOnEveryPath ==
    IsHarvester(script) =>
      /\ opened = Len(requestLog)
      /\ pc \in {"get", "finally"} => sessionOpen = 1 /\ closed = opened - 1
      /\ pc \notin {"get", "finally"} => sessionOpen = 0 /\ closed = opened

\* the second fetch_data call was ended by a connection failure
C10_Witness ==
    /\ pc = "failed" /\ exc = "ConnectionError"
    /\ opened = 2 /\ closed = 2 /\ sessionOpen = 0

\* C11: the k-th fetch_data call of a pull carries offset (k-1)*limit and
\* the limit, order clause and filter of every other call, so the offsets
\* requested are 0, limit, 2*limit, ... with none repeated or skipped; the
\* calls are made one at a time; main's offset is limit times the number of
\* pages absorbed, and it changes only when a non-empty page is absorbed,
\* by exactly limit.
C11_OffsetSequence ==
    /\ [](IsHarvester(script) =>
            /\ \A k \in DOMAIN requestLog :
                 requestLog[k] = Params(script, limit, (k - 1) * limit)
            /\ \A j, k \in DOMAIN requestLog :
                 j < k => requestLog[j].offset < requestLog[k].offset
            /\ offset = limit * Len(frames)
            /\ Len(requestLog) - Len(pageLens) \in {0, 1}
            /\ Len(requestLog) - Len(pageLens) = 1 <=> pc \in {"get", "finally"}
                 \/ (pc = "failed" /\ exc \in {"RetryError", "HTTPError",
                                               "ConnectionError"}))
    /\ [][offset' # offset =>
            /\ pc = "got" /\ data # <<>> /\ pc' = "loop"
            /\ offset' = offset + limit
            /\ Len(frames') = Len(frames) + 1]_vars

\* the third request of a pull with page size 2 has been sent
C11_Witness ==
    /\ IsHarvester(script) /\ limit = 2 /\ pc = "get"
    /\ Len(requestLog) = 3 /\ requestLog[3].offset = 4

====
